---- MODULE Spec2Model ----
(***************************************************************************)
(* Quantum autoencoder fraud detection (QAE_Fraud_Detection.ipynb).        *)
(*                                                                         *)
(* The model follows the notebook's training cell (epoch / mini-batch loop *)
(* around opt.step and cost_fn) and its evaluation cell (fidelity scores,  *)
(* threshold loop, metrics).                                               *)
(*                                                                         *)
(* Numeric tensors are kept symbolically: the parameter tensor is the      *)
(* sequence of mini-batches whose Adam update has been applied to the      *)
(* initial draw, plus a flag telling whether every entry is still finite.  *)
(* Expectation values are integers in hundredths (-100..100); a fidelity   *)
(* (1 + e) / 2 is therefore counted in two-hundredths (0..200) and the     *)
(* thresholds 0.5, 0.6, 0.7 are 100, 120, 140.                             *)
(***************************************************************************)
EXTENDS Integers, Sequences, FiniteSets, TLC

\* ------------------------------------------------------------------ bounds
MaxN       == 3    \* training samples: 0..MaxN
MaxBatch   == 3    \* batch_size: 1..MaxBatch
MaxEpochs  == 2    \* epochs: 0..MaxEpochs
MaxQubits  == 2    \* n_qubits: 1..MaxQubits, feature width: 1..MaxQubits+1
MaxLayers  == 1    \* L: 0..MaxLayers
MaxTest    == 1    \* evaluation samples of a training run: 0..MaxTest
MaxEval    == 3    \* evaluation samples handed to metrics: 0..MaxEval

VARIABLES
    n_qubits,      \* configured register size
    L,             \* configured number of variational layers
    n_components,  \* width of every feature vector (PCA output width)
    epochs,        \* configured epoch count
    batch_size,    \* configured mini-batch size
    X_train_4d,    \* training samples, in dataset order
    X_test_4d,     \* evaluation samples
    y_test,        \* evaluation labels
    weights,       \* parameter tensor
    opt,           \* optimizer state
    epoch,         \* number of completed epochs (loop variable of line 974)
    idx,           \* start of the next mini-batch (loop variable of line 979)
    X_batch,       \* current mini-batch
    grad,          \* gradient computed inside opt.step, not yet applied
    train_loss,    \* last reported loss
    p0_test,       \* fidelity scores of the evaluation samples
    Tpos,          \* position in the threshold list (loop variable of line 1117)
    y_pred,        \* flags of the current threshold
    m,             \* metrics report of the current threshold
    auc,           \* area under the ROC curve
    theta,         \* argument of one call of qae_layer, angles in units of pi
    basis,         \* basis state held by the device during that call
    tape,          \* operations the call has applied so far, in order
    lpc,           \* position of the call in its two loops
    psi,           \* an amplitude vector, before and after controlled flips
    cnot,          \* wires <<control, target>> of the controlled flip
    applied,       \* number of controlled flips applied to psi
    pc,            \* last state of the training / evaluation state machine
    err,           \* the exception that ended the run, "" when none
    log            \* the steps completed so far, in order

vars == <<n_qubits, L, n_components, epochs, batch_size, X_train_4d, X_test_4d,
          y_test, weights, opt, epoch, idx, X_batch, grad, train_loss, p0_test,
          Tpos, y_pred, m, auc, theta, basis, tape, lpc, psi, cnot, applied,
          pc, err, log>>

config == <<n_qubits, L, n_components, epochs, batch_size, X_train_4d,
            X_test_4d, y_test>>

evalvars == <<p0_test, Tpos, y_pred, m, auc>>

circvars == <<theta, basis, tape, lpc, psi, cnot, applied>>

Min(a, b) == IF a < b THEN a ELSE b

None == [none |-> TRUE]

\* ---------------------------------------------------------------- datasets
\* A sample is its row number and whether all its components are finite.
Sample(i, f) == [row |-> i, finite |-> f]

Datasets(max) ==
    UNION { { [i \in 1..k |-> Sample(i, fl[i])] : fl \in [1..k -> BOOLEAN] }
            : k \in 0..max }

\* Python slice X[lo : hi] of a sequence (0-based, hi exclusive, clipped).
Slice(X, lo, hi) == SubSeq(X, lo + 1, Min(hi, Len(X)))

Rows(Xb) == [i \in 1..Len(Xb) |-> Xb[i].row]

AllFinite(Xb) == \A i \in 1..Len(Xb) : Xb[i].finite

\* ------------------------------------------------------------ circuit, cost
\* qml.AngleEmbedding rejects a feature vector longer than the register.
EmbeddingFits == n_components <= n_qubits

\* The wires of the entangling ring of one layer, in the order of the loop
\* for w in range(n_qubits): qml.CNOT(wires=[w, (w + 1) % n_qubits]).
RingWiresNoWrap(n) == [k \in 1..n |-> <<k - 1, IF k = n THEN n - 1 ELSE k>>]

RingWires(n) == [k \in 1..n |-> <<k - 1, k % n>>]

\* An operation on a repeated wire is rejected ("Wires must be unique").
WiresUnique(ws) == ws[1] # ws[2]

\* The exception one call of qae_circuit ends with, "" when it returns:
\* the embedding comes first, then the L layers.
circuit_raises ==
    IF ~EmbeddingFits THEN "embedding"
    ELSE IF L >= 1 /\ \E k \in 1..n_qubits :
                         ~WiresUnique(RingWires(n_qubits)[k])
    THEN "wires"
    ELSE ""

\* cost_fn(weights, X_batch): the exception of the first circuit call when
\* there is one, the ValueError of pnp.stack when the batch is empty, else
\* the symbolic mean error of the batch.
cost_fn(w, Xb) ==
    IF Len(Xb) = 0 THEN [raises |-> "stack"]
    ELSE IF circuit_raises # "" THEN [raises |-> circuit_raises]
    ELSE [raises |-> "", at |-> w.hist, rows |-> Rows(Xb),
          finite |-> w.finite /\ AllFinite(Xb)]

\* ---------------------------------------------------------------- optimizer
\* qml.AdamOptimizer(stepsize=0.001): no accumulated moments, t = 0.
AdamOptimizer == [t |-> 0, finite |-> TRUE]

\* pnp.random.normal(0, 0.01, (L, n_qubits, 3))
InitialWeights == [hist |-> << >>, finite |-> TRUE]

\* Gradient of the objective lambda w: cost_fn(w, X_batch) at w: a tensor of
\* the shape of w, so without entries (and nothing non-finite) when L = 0.
compute_grad(w, Xb) ==
    LET c == cost_fn(w, Xb)
    IN  IF c.raises # "" THEN c
        ELSE [c EXCEPT !.finite = (L = 0) \/ c.finite]

\* One Adam update of the moments and the step counter with gradient g.
apply_grad_opt_per_epoch(o, g) ==
    [t |-> IF idx = 0 THEN 1 ELSE o.t + 1, finite |-> o.finite /\ g.finite]

apply_grad_opt(o, g) == [t |-> o.t + 1, finite |-> o.finite /\ g.finite]

\* The updated parameter tensor: theta - alpha * mhat / (sqrt(vhat) + eps).
apply_grad_skip(w, o, g) ==
    IF g.finite
    THEN [hist |-> Append(w.hist, g.rows), finite |-> w.finite /\ o.finite]
    ELSE w

apply_grad(w, o, g) ==
    [hist |-> Append(w.hist, g.rows),
     finite |-> w.finite /\ o.finite /\ g.finite]

\* ------------------------------------------------------------ training loop
\* range(epochs) is exhausted.
EpochsExhaustedEarly ==
    epoch >= epochs \/ (train_loss # None /\ ~train_loss.finite)

EpochsExhausted == epoch >= epochs

\* range(0, len(X_train_4d), batch_size) is exhausted.
BatchesExhaustedEarly == idx + batch_size >= Len(X_train_4d)

BatchesExhausted == idx >= Len(X_train_4d)

\* The next element of range(0, len(X_train_4d), batch_size)
NextIdxOverlap == idx + 1

NextIdx == idx + batch_size

\* X_train_4d[idx : idx + batch_size]
BatchAtFromStart(i) == Slice(X_train_4d, 0, i + batch_size)

BatchAt(i) == Slice(X_train_4d, i, i + batch_size)

\* X_train_4d[:batch_size]
LossSliceLastBatch == X_batch

LossSlice == Slice(X_train_4d, 0, batch_size)

Event(op) == [op |-> op, epoch |-> epoch, idx |-> idx]

\* No call of qae_layer and no controlled flip is under way.
NoCircuit ==
    /\ theta = << >>
    /\ basis = 0
    /\ tape = << >>
    /\ lpc = None
    /\ psi = None
    /\ cnot = None
    /\ applied = 0

Init ==
    /\ NoCircuit
    /\ n_qubits \in 1..MaxQubits
    /\ L \in 0..MaxLayers
    /\ n_components \in 1..(MaxQubits + 1)
    /\ epochs \in 0..MaxEpochs
    /\ batch_size \in 1..MaxBatch
    /\ X_train_4d \in Datasets(MaxN)
    /\ \E k \in 0..MaxTest : X_test_4d = [i \in 1..k |-> Sample(i, TRUE)]
    /\ y_test = [i \in 1..Len(X_test_4d) |-> 0]
    /\ weights = InitialWeights
    /\ opt = AdamOptimizer
    /\ epoch = 0
    /\ idx = 0
    /\ X_batch = << >>
    /\ grad = None
    /\ train_loss = None
    /\ p0_test = << >>
    /\ Tpos = 0
    /\ y_pred = << >>
    /\ m = None
    /\ auc = None
    /\ pc = "Idle"
    /\ err = ""
    /\ log = << >>

Raise(e) ==
    /\ pc' = "Error"
    /\ err' = e
    /\ log' = Append(log, Event("Error"))

\* for epoch in range(epochs): batch_iter = range(0, len(X_train_4d), batch_size)
BeginEpoch ==
    /\ pc \in {"Idle", "EpochComplete"}
    /\ ~EpochsExhausted
    /\ idx' = 0
    /\ pc' = "EpochStart"
    /\ UNCHANGED <<config, circvars, evalvars, weights, opt, epoch, X_batch, grad,
                   train_loss, err, log>>

\* X_batch = X_train_4d[idx : idx + batch_size]; first half of opt.step:
\* the gradient of the batch cost at the current weights.
ComputeBatchGradient ==
    /\ pc \in {"EpochStart", "OptimizerStep"}
    /\ ~BatchesExhausted
    /\ LET Xb == BatchAt(idx)
           g  == compute_grad(weights, Xb)
       IN  /\ X_batch' = Xb
           /\ IF g.raises # ""
              THEN Raise(g.raises) /\ UNCHANGED grad
              ELSE /\ grad' = g
                   /\ pc' = "ComputeBatchGradient"
                   /\ log' = Append(log, Event("ComputeBatchGradient"))
                   /\ UNCHANGED err
    /\ UNCHANGED <<config, circvars, evalvars, weights, opt, epoch, idx, train_loss>>

\* Second half of opt.step: the Adam update; weights = the returned tensor.
OptimizerStep ==
    /\ pc = "ComputeBatchGradient"
    /\ weights' = apply_grad(weights, opt, grad)
    /\ opt' = apply_grad_opt(opt, grad)
    /\ grad' = None
    /\ log' = Append(log, Event("OptimizerStep"))
    /\ idx' = NextIdx
    /\ pc' = "OptimizerStep"
    /\ UNCHANGED <<config, circvars, evalvars, epoch, X_batch, train_loss, err>>

\* train_loss = cost_fn(weights, X_train_4d[:batch_size]); print
EpochComplete ==
    /\ pc \in {"EpochStart", "OptimizerStep"}
    /\ BatchesExhausted
    /\ LET loss == cost_fn(weights, LossSlice)
       IN  IF loss.raises # ""
           THEN Raise(loss.raises) /\ UNCHANGED <<train_loss, epoch>>
           ELSE /\ train_loss' = loss
                /\ log' = Append(log, [Event("EpochComplete") EXCEPT
                                          !.idx = 0] @@ [loss |-> loss])
                /\ epoch' = epoch + 1
                /\ pc' = "EpochComplete"
                /\ UNCHANGED err
    /\ UNCHANGED <<config, circvars, evalvars, weights, opt, idx, X_batch, grad>>

\* range(epochs) is exhausted: print("Training completed!")
Done ==
    /\ pc \in {"Idle", "EpochComplete"}
    /\ EpochsExhausted
    /\ pc' = "Done"
    /\ log' = Append(log, Event("Done"))
    /\ UNCHANGED <<config, circvars, evalvars, weights, opt, epoch, idx, X_batch, grad,
                   train_loss, err>>

\* ------------------------------------------------------ scoring, metrics
\* Expectation values the circuit is let to return, in hundredths: with the
\* thresholds 100, 120, 140 the fidelities e + 100 fall below every
\* threshold, on each threshold, and above every threshold.
ExpVals == {-20, 0, 20, 40, 60}

\* for T in [0.5, 0.6, 0.7], in two-hundredths
Thresholds == <<100, 120, 140>>

NaN == [nan |-> TRUE, v |-> 0]

\* (qae_circuit(x, weights) + 1) / 2 in two-hundredths, e in hundredths
Fidelity(e) == [nan |-> FALSE, v |-> e + 100]

\* p0 < T on floats: every comparison with NaN is False
LessOrEqual(p, T) == ~p.nan /\ p.v <= T

Less(p, T) == ~p.nan /\ p.v < T

\* y_pred = (p0_test < T).astype(int)
PredictAbove(p0, T) == [i \in 1..Len(p0) |-> IF Less(p0[i], T) THEN 0 ELSE 1]

Predict(p0, T) == [i \in 1..Len(p0) |-> IF Less(p0[i], T) THEN 1 ELSE 0]

\* Number of positions where y_true is a and y_pred is b: one cell of
\* confusion_matrix(y_true, y_pred, labels=[0,1]).
RECURSIVE Cell(_, _, _, _)
Cell(yt, yp, a, b) ==
    IF Len(yt) = 0 THEN 0
    ELSE (IF Head(yt) = a /\ Head(yp) = b THEN 1 ELSE 0)
         + Cell(Tail(yt), Tail(yp), a, b)

RECURSIVE Gcd(_, _)
Gcd(a, b) == IF b = 0 THEN a ELSE Gcd(b, a % b)

\* The float num / den as a fraction in lowest terms (den > 0).
Frac(num, den) ==
    LET g == Gcd(num, den)
    IN  [nan |-> FALSE, num |-> num \div g, den |-> den \div g]

Zero == [nan |-> FALSE, num |-> 0, den |-> 1]

NaNRatio == [nan |-> TRUE, num |-> 0, den |-> 1]

\* accuracy_score: the mean of (y_true == y_pred); the mean of an empty
\* array is nan (a RuntimeWarning, no exception).
accuracy_score(tn, fp, fn, tp) ==
    IF tn + fp + fn + tp = 0 THEN NaNRatio
    ELSE Frac(tn + tp, tn + fp + fn + tp)

\* precision_score(y_true, y_pred, zero_division=0)
precision_score(tn, fp, fn, tp) ==
    IF tp + fp = 0 THEN Zero ELSE Frac(tp, tp + fp)

\* recall_score(y_true, y_pred, zero_division=0)
recall_score(tn, fp, fn, tp) ==
    IF tp + fn = 0 THEN Zero ELSE Frac(tp, tp + fn)

\* f1_score(y_true, y_pred, zero_division=0)
f1_score(tn, fp, fn, tp) ==
    IF 2 * tp + fp + fn = 0 THEN Zero ELSE Frac(2 * tp, 2 * tp + fp + fn)

\* spec = tn / (tn + fp) if (tn + fp) else 0.
specificity(tn, fp) ==
    IF tn + fp # 0 THEN Frac(tn, tn + fp) ELSE Zero

\* gmean = (rec * spec) ** 0.5, kept as the square root of a fraction
gmean_product(rec, spec) ==
    [radicand |-> Frac(rec.num * spec.num * rec.num * spec.num,
                       rec.den * spec.den * rec.den * spec.den)]

gmean(rec, spec) ==
    [radicand |-> Frac(rec.num * spec.num, rec.den * spec.den)]

metrics(yt, yp) ==
    LET tn == Cell(yt, yp, 0, 0)
        fp == Cell(yt, yp, 0, 1)
        fn == Cell(yt, yp, 1, 0)
        tp == Cell(yt, yp, 1, 1)
    IN  [TN |-> tn, FP |-> fp, FN |-> fn, TP |-> tp,
         Accuracy    |-> accuracy_score(tn, fp, fn, tp),
         Precision   |-> precision_score(tn, fp, fn, tp),
         Recall      |-> recall_score(tn, fp, fn, tp),
         F1          |-> f1_score(tn, fp, fn, tp),
         Specificity |-> specificity(tn, fp),
         Gmean       |-> gmean(recall_score(tn, fp, fn, tp),
                               specificity(tn, fp))]

\* p0_test = np.array([(qae_circuit(x, weights) + 1) / 2 for x in X_test_4d])
\* followed by the printed statistics; np.min of an empty array raises.
Score ==
    /\ pc = "Done"
    /\ IF Len(X_test_4d) = 0
       THEN Raise("min") /\ UNCHANGED p0_test
       ELSE IF circuit_raises # ""
       THEN Raise(circuit_raises) /\ UNCHANGED p0_test
       ELSE /\ \E e \in [1..Len(X_test_4d) -> ExpVals] :
                  p0_test' = [i \in 1..Len(X_test_4d) |->
                                 IF weights.finite /\ X_test_4d[i].finite
                                 THEN Fidelity(e[i]) ELSE NaN]
            /\ pc' = "Scored"
            /\ log' = Append(log, Event("Score") @@ [at |-> weights])
            /\ UNCHANGED err
    /\ UNCHANGED <<config, circvars, weights, opt, epoch, idx, X_batch, grad,
                   train_loss, Tpos, y_pred, m, auc>>

\* One iteration of the threshold loop.
ThresholdStep ==
    /\ pc \in {"Scored", "Threshold"}
    /\ Tpos < Len(Thresholds)
    /\ y_pred' = Predict(p0_test, Thresholds[Tpos + 1])
    /\ m' = metrics(y_test, y_pred')
    /\ Tpos' = Tpos + 1
    /\ pc' = "Threshold"
    /\ UNCHANGED <<config, circvars, weights, opt, epoch, idx, X_batch, grad,
                   train_loss, p0_test, auc, err, log>>

\* 1 - p0_test, in two-hundredths
FraudScoreRaw(p0) == [i \in 1..Len(p0) |-> p0[i].v]

FraudScore(p0) == [i \in 1..Len(p0) |-> 200 - p0[i].v]

RECURSIVE SumFn(_, _)
SumFn(f, D) ==
    IF D = {} THEN 0
    ELSE LET x == CHOOSE x \in D : TRUE IN f[x] + SumFn(f, D \ {x})

\* roc_auc_score(y_true, y_score): a ValueError unless both classes are
\* present; else the area under the ROC curve by the trapezoid rule, the
\* curve having one point (fps, tps) per distinct score, scores descending,
\* after the point (0, 0).
roc_auc_score(yt, sc) ==
    LET K == 1..Len(sc)
        P == Cardinality({i \in K : yt[i] = 1})
        N == Cardinality({i \in K : yt[i] = 0})
        S == {sc[i] : i \in K}
        tps(s) == Cardinality({i \in K : yt[i] = 1 /\ sc[i] >= s})
        fps(s) == Cardinality({i \in K : yt[i] = 0 /\ sc[i] >= s})
        above(s) == {u \in S : u > s}
        prev(s) == CHOOSE u \in above(s) : \A v \in above(s) : u <= v
        ptps(s) == IF above(s) = {} THEN 0 ELSE tps(prev(s))
        pfps(s) == IF above(s) = {} THEN 0 ELSE fps(prev(s))
        twice == [s \in S |-> (fps(s) - pfps(s)) * (tps(s) + ptps(s))]
    IN  IF P = 0 \/ N = 0 THEN [raises |-> "one class"]
        ELSE [raises |-> "", value |-> Frac(SumFn(twice, S), 2 * P * N)]

\* auc = roc_auc_score(y_test, 1 - p0_test), after the threshold loop
AreaUnderCurve ==
    /\ pc \in {"Scored", "Threshold"}
    /\ Tpos >= Len(Thresholds)
    /\ LET r == roc_auc_score(y_test, FraudScore(p0_test))
       IN  IF r.raises # ""
           THEN Raise(r.raises) /\ UNCHANGED auc
           ELSE /\ auc' = r.value
                /\ pc' = "AUC"
                /\ UNCHANGED <<err, log>>
    /\ UNCHANGED <<config, circvars, weights, opt, epoch, idx, X_batch, grad,
                   train_loss, p0_test, Tpos, y_pred, m>>

\* The training cell followed by the scoring of the evaluation set.
Next ==
    \/ BeginEpoch
    \/ ComputeBatchGradient
    \/ OptimizerStep
    \/ EpochComplete
    \/ Done
    \/ Score

Spec == Init /\ [][Next]_vars

\* The loop body never waits: every enabled statement is eventually executed.
FairSpec == Spec /\ WF_vars(Next)

\* ------------------------------------------------------------------------
\* The threshold loop and metrics, started from the scored state of a run
\* with bounded score and label vectors: every vector of at most MaxEval
\* scores, and the documented example.
ExampleScores == <<Fidelity(80), Fidelity(60), Fidelity(90), Fidelity(-60),
                   Fidelity(-80)>>

ExampleLabels == <<0, 0, 0, 1, 1>>

InitEval ==
    /\ NoCircuit
    /\ n_qubits = 2
    /\ L = 1
    /\ n_components = 2
    /\ epochs = 0
    /\ batch_size = 1
    /\ X_train_4d = << >>
    /\ \/ \E k \in 0..MaxEval :
            /\ p0_test \in [1..k -> {Fidelity(e) : e \in ExpVals}]
            /\ y_test \in [1..k -> {0, 1}]
       \/ /\ p0_test = ExampleScores
          /\ y_test = ExampleLabels
    /\ X_test_4d = [i \in 1..Len(p0_test) |-> Sample(i, TRUE)]
    /\ weights = InitialWeights
    /\ opt = AdamOptimizer
    /\ epoch = 0
    /\ idx = 0
    /\ X_batch = << >>
    /\ grad = None
    /\ train_loss = None
    /\ Tpos = 0
    /\ y_pred = << >>
    /\ m = None
    /\ auc = None
    /\ pc = "Scored"
    /\ err = ""
    /\ log = << >>

NextEval ==
    \/ ThresholdStep
    \/ AreaUnderCurve

SpecEval == InitEval /\ [][NextEval]_vars

\* ------------------------------------------------------------------------
\* One call of qae_layer(theta) on a register of n_qubits wires, gate by
\* gate.  Angles are 0 or pi, so that every gate maps a basis state to a
\* basis state (up to a global phase, which is dropped): RX(pi) and RY(pi)
\* flip the wire's bit, RZ(pi) and every rotation by 0 leave it.  Wire 0 is
\* the most significant bit of a basis index.
Bit(b, w, n) == (b \div 2 ^ (n - 1 - w)) % 2

FlipBit(b, w, n) ==
    IF Bit(b, w, n) = 0 THEN b + 2 ^ (n - 1 - w) ELSE b - 2 ^ (n - 1 - w)

\* qml.RX / qml.RY / qml.RZ, in the order of the loop body
Rotations == <<"RX", "RY", "RZ">>

Rotate(gate, angle, b, w, n) ==
    IF angle = 1 /\ gate \in {"RX", "RY"} THEN FlipBit(b, w, n) ELSE b

\* qml.CNOT on a basis index: the target bit is flipped when the control
\* bit is 1.
CNOTIndexSet(b, c, t, n) ==
    IF Bit(b, c, n) = 1 /\ Bit(b, t, n) = 0 THEN FlipBit(b, t, n) ELSE b

CNOTIndex(b, c, t, n) ==
    IF Bit(b, c, n) = 1 THEN FlipBit(b, t, n) ELSE b

\* qml.CNOT on an amplitude vector: the amplitudes of the two indices of
\* every pair that differs in the target bit and has control bit 1 change
\* places.
CNOT(v, c, t, n) ==
    [i \in 0..(2 ^ n - 1) |-> v[CNOTIndex(i, c, t, n)]]

InitLayer ==
    /\ n_qubits \in 1..MaxQubits
    /\ theta \in [0..(n_qubits - 1) -> [0..2 -> {0, 1}]]
    /\ basis \in 0..(2 ^ n_qubits - 1)
    /\ tape = << >>
    /\ lpc = [loop |-> "rotations", w |-> 0, k |-> 0]
    /\ psi = None
    /\ cnot = None
    /\ applied = 0
    /\ L = 1
    /\ n_components = n_qubits
    /\ epochs = 0
    /\ batch_size = 1
    /\ X_train_4d = << >>
    /\ X_test_4d = << >>
    /\ y_test = << >>
    /\ weights = InitialWeights
    /\ opt = AdamOptimizer
    /\ epoch = 0
    /\ idx = 0
    /\ X_batch = << >>
    /\ grad = None
    /\ train_loss = None
    /\ p0_test = << >>
    /\ Tpos = 0
    /\ y_pred = << >>
    /\ m = None
    /\ auc = None
    /\ pc = "Idle"
    /\ err = ""
    /\ log = << >>

norun == <<config, evalvars, weights, opt, epoch, idx, X_batch, grad,
           train_loss, pc, log>>

\* for w in range(n_qubits): qml.RX(theta[w, 0], wires=w); qml.RY(...);
\* qml.RZ(...) -- one gate per step
ApplyRotation ==
    /\ lpc # None
    /\ lpc.loop = "rotations"
    /\ LET w == lpc.w
           k == lpc.k
           gate == Rotations[k + 1]
       IN  /\ basis' = Rotate(gate, theta[w][k], basis, w, n_qubits)
           /\ tape' = Append(tape, [gate |-> gate, wires |-> <<w>>,
                                    param |-> <<w, k>>])
           /\ lpc' = IF k < 2 THEN [lpc EXCEPT !.k = k + 1]
                     ELSE IF w + 1 < n_qubits
                     THEN [lpc EXCEPT !.w = w + 1, !.k = 0]
                     ELSE [loop |-> "ring", w |-> 0, k |-> 0]
    /\ UNCHANGED <<norun, theta, psi, cnot, applied, err>>

\* for w in range(n_qubits): qml.CNOT(wires=[w, (w + 1) % n_qubits])
\* -- one gate per step
ApplyCNOT ==
    /\ lpc # None
    /\ lpc.loop = "ring"
    /\ LET ws == RingWires(n_qubits)[lpc.w + 1]
       IN  IF ~WiresUnique(ws)
           THEN /\ lpc' = [lpc EXCEPT !.loop = "error"]
                /\ err' = "wires"
                /\ UNCHANGED <<basis, tape>>
           ELSE /\ basis' = CNOTIndex(basis, ws[1], ws[2], n_qubits)
                /\ tape' = Append(tape, [gate |-> "CNOT", wires |-> ws])
                /\ lpc' = IF lpc.w + 1 < n_qubits
                          THEN [lpc EXCEPT !.w = lpc.w + 1]
                          ELSE [lpc EXCEPT !.loop = "done"]
                /\ UNCHANGED err
    /\ UNCHANGED <<norun, theta, psi, cnot, applied>>

NextLayer ==
    \/ ApplyRotation
    \/ ApplyCNOT

SpecLayer == InitLayer /\ [][NextLayer]_vars

\* ------------------------------------------------------------------------
\* The controlled flip applied repeatedly to one pair of distinct wires of a
\* register holding any amplitude vector over the symbolic amplitudes Amps.
Amps == {0, 1, 2}

InitGate ==
    /\ n_qubits \in 1..MaxQubits
    /\ cnot \in {ws \in (0..(n_qubits - 1)) \X (0..(n_qubits - 1)) :
                   WiresUnique(ws)}
    /\ \E v \in [0..(2 ^ n_qubits - 1) -> Amps] :
           psi = [init |-> v, now |-> v]
    /\ applied = 0
    /\ theta = << >>
    /\ basis = 0
    /\ tape = << >>
    /\ lpc = None
    /\ L = 1
    /\ n_components = n_qubits
    /\ epochs = 0
    /\ batch_size = 1
    /\ X_train_4d = << >>
    /\ X_test_4d = << >>
    /\ y_test = << >>
    /\ weights = InitialWeights
    /\ opt = AdamOptimizer
    /\ epoch = 0
    /\ idx = 0
    /\ X_batch = << >>
    /\ grad = None
    /\ train_loss = None
    /\ p0_test = << >>
    /\ Tpos = 0
    /\ y_pred = << >>
    /\ m = None
    /\ auc = None
    /\ pc = "Idle"
    /\ err = ""
    /\ log = << >>

\* qml.CNOT(wires=cnot)
ApplyControlledFlip ==
    /\ psi # None
    /\ applied < 2
    /\ psi' = [psi EXCEPT !.now = CNOT(psi.now, cnot[1], cnot[2], n_qubits)]
    /\ applied' = applied + 1
    /\ UNCHANGED <<norun, theta, basis, tape, lpc, cnot, err>>

NextGate == ApplyControlledFlip

SpecGate == InitGate /\ [][NextGate]_vars

\* ------------------------------------------------------------------------
\* Properties
\* ------------------------------------------------------------------------

\* C1: the training run follows Idle -> per epoch -> per mini-batch
\* ComputeBatchGradient -> OptimizerStep -> EpochComplete: every
\* OptimizerStep directly follows the ComputeBatchGradient of the same
\* mini-batch, EpochComplete of epoch e comes after the OptimizerStep of
\* every mini-batch of e, and no mini-batch of epoch e+1 is processed before
\* EpochComplete of e.
C1_StateMachine ==
    LET N == Len(X_train_4d)
        starts == {b \in 0..(N - 1) : b % batch_size = 0}
        batchOps == {"ComputeBatchGradient", "OptimizerStep"}
    IN  \A i \in 1..Len(log) :
          /\ log[i].op = "OptimizerStep" =>
                /\ i > 1
                /\ log[i - 1].op = "ComputeBatchGradient"
                /\ log[i - 1].epoch = log[i].epoch
                /\ log[i - 1].idx = log[i].idx
          /\ log[i].op = "EpochComplete" =>
                \A b \in starts : \E j \in 1..(i - 1) :
                    /\ log[j].op = "OptimizerStep"
                    /\ log[j].epoch = log[i].epoch
                    /\ log[j].idx = b
          /\ (log[i].op \in batchOps /\ log[i].epoch > 0) =>
                \E j \in 1..(i - 1) :
                    /\ log[j].op = "EpochComplete"
                    /\ log[j].epoch = log[i].epoch - 1
          /\ log[i].op \in batchOps =>
                \A j \in 1..(i - 1) :
                    log[j].op = "EpochComplete" => log[j].epoch < log[i].epoch

\* Two epochs of two mini-batches each have completed.
C1_Witness ==
    /\ pc = "Done"
    /\ epoch = 2
    /\ Len(X_train_4d) = 3
    /\ batch_size = 2
    /\ Len(log) = 11

C3_ExactlyB == pc = "ComputeBatchGradient" => Len(X_batch) = batch_size

\* C3 (amended): the k-th optimizer step of a run works on the consecutive
\* samples starting at ((k-1) mod batches-per-epoch) * batch_size, batch_size
\* of them or, for the last batch of an epoch, the samples that remain; so
\* every epoch sees the same slices in the same ascending order.
C3_ContiguousSlices ==
    LET N  == Len(X_train_4d)
        nb == Cardinality({b \in 0..(N - 1) : b % batch_size = 0})
        Expected(k) ==
            LET s == ((k - 1) % nb) * batch_size
            IN  [j \in 1..Min(batch_size, N - s) |-> s + j]
    IN  /\ \A k \in 1..Len(weights.hist) : weights.hist[k] = Expected(k)
        /\ pc = "ComputeBatchGradient" =>
              /\ Rows(X_batch) = Expected(Len(weights.hist) + 1)
              /\ Len(X_batch) >= 1
              /\ Len(X_batch) <= batch_size
              /\ (idx + batch_size <= N => Len(X_batch) = batch_size)
              /\ \A j \in 1..Len(X_batch) : X_batch[j] = X_train_4d[idx + j]

\* The short last batch of the second epoch is about to be stepped on.
C3_Witness ==
    /\ pc = "ComputeBatchGradient"
    /\ epoch = 1
    /\ Len(X_train_4d) = 3
    /\ batch_size = 2
    /\ idx = 2
    /\ Len(X_batch) = 1

\* C4: only the optimizer step writes the parameter tensor, once per
\* mini-batch: the number of updates applied to it equals the number of
\* optimizer steps taken, and computing the batch gradient, reporting the
\* loss and scoring leave it unchanged.
C4_SingleWriter ==
    /\ [](Len(weights.hist)
            = Cardinality({i \in 1..Len(log) : log[i].op = "OptimizerStep"}))
    /\ [][weights' # weights =>
            /\ pc = "ComputeBatchGradient"
            /\ pc' = "OptimizerStep"
            /\ Len(weights'.hist) = Len(weights.hist) + 1]_vars
    /\ [][pc' \in {"ComputeBatchGradient", "EpochComplete", "Scored",
                   "Threshold", "Done", "EpochStart", "Error"}
            => weights' = weights]_vars

\* Scoring has run after two epochs of two steps each, one of them on a
\* non-finite gradient.
C4_Witness ==
    /\ pc = "Scored"
    /\ epoch = 2
    /\ Len(weights.hist) = 4
    /\ ~weights.finite

\* C5: the optimizer's step counter starts at 0, grows by exactly 1 at each
\* optimizer step and at no other time, is never reset at an epoch boundary,
\* and always equals the number of mini-batch steps taken so far.
C5_StepCounter ==
    /\ [](opt.t
            = Cardinality({i \in 1..Len(log) : log[i].op = "OptimizerStep"}))
    /\ [](pc = "Idle" => opt.t = 0)
    /\ [][IF pc' = "OptimizerStep" /\ pc = "ComputeBatchGradient"
          THEN opt'.t = opt.t + 1
          ELSE opt'.t = opt.t]_vars

\* The first step of the second epoch has brought t to 3.
C5_Witness ==
    /\ pc = "OptimizerStep"
    /\ epoch = 1
    /\ idx = batch_size
    /\ Len(X_train_4d) = 2
    /\ batch_size = 1
    /\ opt.t = 3

\* C6: the loss is reported exactly once per completed epoch, right after
\* that epoch's last optimizer step, with the parameters as they then stand,
\* and always on the leading slice X_train_4d[:batch_size].
C6_LossReport ==
    LET N  == Len(X_train_4d)
        nb == Cardinality({b \in 0..(N - 1) : b % batch_size = 0})
        reports == {i \in 1..Len(log) : log[i].op = "EpochComplete"}
    IN  /\ \A i \in reports :
              /\ log[i].loss.rows = [j \in 1..Min(batch_size, N) |-> j]
              /\ i > 1
              /\ log[i - 1].op = "OptimizerStep"
              /\ log[i - 1].epoch = log[i].epoch
              /\ log[i - 1].idx + batch_size >= N
              /\ Len(log[i].loss.at) = (log[i].epoch + 1) * nb
              /\ log[i].loss.at
                   = SubSeq(weights.hist, 1, Len(log[i].loss.at))
              /\ \A j \in reports : log[j].epoch = log[i].epoch => j = i
        /\ Cardinality(reports) = epoch
        /\ IF epoch = 0 THEN train_loss = None
           ELSE \E i \in reports :
                    log[i].epoch = epoch - 1 /\ train_loss = log[i].loss

\* The second report of a run whose last mini-batch is not the leading one.
C6_Witness ==
    /\ pc = "EpochComplete"
    /\ epoch = 2
    /\ Len(X_train_4d) = 3
    /\ batch_size = 1
    /\ train_loss.rows = <<1>>
    /\ Rows(X_batch) = <<3>>

\* C7: at threshold T a sample is flagged iff its fidelity is strictly below
\* T, TP/FN count the label-1 samples flagged/not flagged and FP/TN the
\* label-0 samples flagged/not flagged; the documented example
\* (0.9, 0.8, 0.95, 0.2, 0.1 with labels 0,0,0,1,1 at T = 0.5) gives
\* TP=2, FN=0, TN=3, FP=0 and accuracy 1.
C7_ThresholdRule ==
    pc = "Threshold" =>
      LET T == Thresholds[Tpos]
          K == 1..Len(p0_test)
          flagged == {i \in K : p0_test[i].v < T}
      IN  /\ Len(y_pred) = Len(p0_test)
          /\ \A i \in K : y_pred[i] = 1 <=> i \in flagged
          /\ \A i \in K : p0_test[i].v = T => y_pred[i] = 0
          /\ m.TP = Cardinality({i \in flagged : y_test[i] = 1})
          /\ m.FN = Cardinality({i \in K \ flagged : y_test[i] = 1})
          /\ m.FP = Cardinality({i \in flagged : y_test[i] = 0})
          /\ m.TN = Cardinality({i \in K \ flagged : y_test[i] = 0})
          /\ (p0_test = ExampleScores /\ y_test = ExampleLabels /\ T = 100) =>
                /\ m.TP = 2
                /\ m.FN = 0
                /\ m.TN = 3
                /\ m.FP = 0
                /\ m.Accuracy = [nan |-> FALSE, num |-> 1, den |-> 1]

\* The documented example has been evaluated at T = 0.5.
C7_Witness ==
    /\ pc = "Threshold"
    /\ Tpos = 1
    /\ p0_test = ExampleScores
    /\ y_test = ExampleLabels
    /\ y_pred = <<0, 0, 0, 1, 1>>

\* C8: every ratio of the report is a number, and is 0 when its denominator
\* is 0, for every combination of confusion counts, the empty evaluation set
\* included.
C8_RatiosDefined ==
    pc = "Threshold" =>
      LET total == m.TN + m.FP + m.FN + m.TP
      IN  /\ ~m.Accuracy.nan
          /\ ~m.Precision.nan
          /\ ~m.Recall.nan
          /\ ~m.F1.nan
          /\ ~m.Specificity.nan
          /\ total = 0 => m.Accuracy = Zero
          /\ m.TP + m.FP = 0 => m.Precision = Zero
          /\ m.TP + m.FN = 0 => m.Recall = Zero
          /\ 2 * m.TP + m.FP + m.FN = 0 => m.F1 = Zero
          /\ m.TN + m.FP = 0 => m.Specificity = Zero

\* C9: under an invalid configuration (no layer, no qubit, or feature
\* vectors whose width is not the register size) nothing of the training or
\* scoring runs: no batch gradient, no optimizer step, no loss report, no
\* score.
C9_FailFast ==
    (n_qubits < 1 \/ L < 1 \/ n_components # n_qubits) =>
        /\ opt.t = 0
        /\ \A i \in 1..Len(log) :
             log[i].op \notin {"ComputeBatchGradient", "OptimizerStep",
                               "EpochComplete", "Score"}

\* C10: a parameter tensor that an optimizer step left non-finite ends the
\* run with a training-diverged error: it is never the input of a further
\* batch gradient, optimizer step, loss report or score.
C10_DivergenceSurfaced ==
    ~weights.finite =>
        \/ pc = "OptimizerStep"
        \/ pc = "Error" /\ err = "diverged"

\* C11: an empty training set is rejected with an input error before any
\* epoch body runs: with zero training samples the run is either not yet
\* started or stopped by that error, and never inside or past an epoch.
C11_EmptyRejected ==
    Len(X_train_4d) = 0 =>
        \/ pc = "Idle"
        \/ pc = "Error" /\ err = "input" /\ Len(log) = 1

\* C13: when both classes are present and every label-0 fidelity exceeds
\* every label-1 fidelity, the area under the ROC curve of 1 - fidelity is
\* exactly 1 (and the area is computed, not refused).
C13_SeparatedAUC ==
    LET K == 1..Len(p0_test)
        separated == \A i, j \in K :
                        (y_test[i] = 0 /\ y_test[j] = 1)
                            => p0_test[i].v > p0_test[j].v
        both == (\E i \in K : y_test[i] = 0) /\ (\E j \in K : y_test[j] = 1)
    IN  /\ (pc = "AUC" /\ separated)
              => auc = [nan |-> FALSE, num |-> 1, den |-> 1]
        /\ (pc = "Error" /\ err = "one class") => ~both
        /\ pc = "AUC" => both

\* Two normal samples above one anomalous sample: area 1.
C13_Witness ==
    /\ pc = "AUC"
    /\ y_test = <<0, 1, 0>>
    /\ p0_test = <<Fidelity(20), Fidelity(0), Fidelity(60)>>
    /\ auc = [nan |-> FALSE, num |-> 1, den |-> 1]

\* C14: the square of Gmean is Recall x Specificity, that is
\* TP * TN / ((TP + FN) * (TN + FP)) when neither denominator is 0, and
\* Gmean is 0 exactly when recall or specificity is 0, a factor that is 0
\* for want of samples of its class included.
C14_Gmean ==
    pc = "Threshold" =>
      LET g  == m.Gmean.radicand
          dr == m.TP + m.FN
          ds == m.TN + m.FP
      IN  /\ ~g.nan
          /\ g.den > 0
          /\ (dr # 0 /\ ds # 0) => g.num * dr * ds = g.den * m.TP * m.TN
          /\ (dr = 0 \/ ds = 0) => g.num = 0
          /\ g.num = 0 <=> (m.Recall.num = 0 \/ m.Specificity.num = 0)
          /\ g.num * m.Recall.den * m.Specificity.den
               = g.den * m.Recall.num * m.Specificity.num

\* Recall 1/2 and specificity 1: Gmean is the square root of 1/2.
C14_Witness ==
    /\ pc = "Threshold"
    /\ m.TP = 1
    /\ m.FN = 1
    /\ m.TN = 1
    /\ m.FP = 0
    /\ m.Gmean = [radicand |-> [nan |-> FALSE, num |-> 1, den |-> 2]]

\* C17: the mini-batches of an epoch partition the training set: every
\* sample is in exactly one mini-batch of every completed epoch, an epoch
\* takes ceil(N / B) optimizer steps and a completed run of E epochs
\* E * ceil(N / B).
C17_Partition ==
    LET N  == Len(X_train_4d)
        nb == (N + batch_size - 1) \div batch_size
        h  == weights.hist
    IN  /\ pc \in {"EpochComplete", "Done", "Scored"} =>
              /\ opt.t = epoch * nb
              /\ Len(h) = epoch * nb
        /\ (pc \in {"Done", "Scored"} /\ N >= 1) => opt.t = epochs * nb
        /\ \A e \in 0..(epoch - 1) : \A r \in 1..N :
              Cardinality({<<k, j>> \in ((e * nb + 1)..((e + 1) * nb))
                                          \X (1..batch_size) :
                              j <= Len(h[k]) /\ h[k][j] = r}) = 1

\* Two epochs over three samples in batches of two: four steps.
C17_Witness ==
    /\ pc = "Done"
    /\ Len(X_train_4d) = 3
    /\ batch_size = 2
    /\ epochs = 2
    /\ opt.t = 4
    /\ weights.hist = <<<<1, 2>>, <<3>>, <<1, 2>>, <<3>>>>

\* C18: along the ascending threshold list a flagged sample stays flagged,
\* TP and FP never decrease, TN and FN never increase, and the four counts
\* always add up to the number of evaluation samples.
C18_Monotone ==
    /\ [][(pc = "Threshold" /\ pc' = "Threshold") =>
            /\ Thresholds[Tpos] <= Thresholds[Tpos']
            /\ \A i \in 1..Len(y_pred) : y_pred[i] = 1 => y_pred'[i] = 1
            /\ m'.TP >= m.TP
            /\ m'.FP >= m.FP
            /\ m'.TN <= m.TN
            /\ m'.FN <= m.FN]_vars
    /\ [](pc = "Threshold" => m.TN + m.FP + m.FN + m.TP = Len(y_test))

\* One more sample is flagged at each of the three thresholds.
C18_Witness ==
    /\ pc = "Threshold"
    /\ Tpos = 3
    /\ p0_test = <<Fidelity(-20), Fidelity(0), Fidelity(20)>>
    /\ y_test = <<1, 0, 1>>
    /\ y_pred = <<1, 1, 1>>
    /\ m.TP = 2
    /\ m.FP = 1

\* C15 (as stated): for every n_qubits >= 1 the layer applies all its
\* rotations and then its whole ring, every ring operation on two distinct
\* wires.
C15_RingAlwaysDistinct ==
    lpc # None =>
        /\ lpc.loop # "error"
        /\ lpc.loop = "ring" => WiresUnique(RingWires(n_qubits)[lpc.w + 1])

\* C15 (amended): the layer applies RX, RY, RZ to wire 0, then to wire 1,
\* ..., and only then the ring: for n_qubits >= 2 exactly n_qubits
\* controlled flips, the i-th with control i and target (i + 1) mod
\* n_qubits, two distinct wires; for n_qubits = 1 the only ring operation
\* has control = target = 0 and the layer ends with an error after its
\* three rotations.
C15_LayerOrder ==
    lpc # None =>
      LET n == n_qubits
          rot(w, k) == [gate |-> Rotations[k + 1], wires |-> <<w>>,
                        param |-> <<w, k>>]
          ring(i) == [gate |-> "CNOT",
                      wires |-> <<i, IF i + 1 = n THEN 0 ELSE i + 1>>]
      IN  /\ Len(tape) <= 4 * n
          /\ \A j \in 1..Len(tape) :
               IF j <= 3 * n
               THEN tape[j] = rot((j - 1) \div 3, (j - 1) % 3)
               ELSE /\ tape[j] = ring(j - 3 * n - 1)
                    /\ tape[j].wires[1] # tape[j].wires[2]
          /\ (lpc.loop = "done" /\ n >= 2) => Len(tape) = 4 * n
          /\ lpc.loop = "done" => n >= 2
          /\ lpc.loop = "error" => (n = 1 /\ Len(tape) = 3)
          /\ lpc.loop = "ring" => Len(tape) = 3 * n + lpc.w

\* A layer on two wires has applied its six rotations and both ring
\* operations, the wrap-around one last.
C15_Witness ==
    /\ lpc # None
    /\ lpc.loop = "done"
    /\ n_qubits = 2
    /\ Len(tape) = 8
    /\ tape[8] = [gate |-> "CNOT", wires |-> <<1, 0>>]

\* C16: the controlled flip on two distinct wires is self-inverse: one
\* application exchanges exactly the amplitudes of the index pairs that
\* differ in the target bit and have control bit 1, and a second application
\* restores the original vector.
C16_SelfInverse ==
    psi # None =>
      LET n == n_qubits
          c == cnot[1]
          t == cnot[2]
          D == 0..(2 ^ n - 1)
          cbit(i) == (i \div 2 ^ (n - 1 - c)) % 2
          tbit(i) == (i \div 2 ^ (n - 1 - t)) % 2
          partner(i) == IF tbit(i) = 0 THEN i + 2 ^ (n - 1 - t)
                        ELSE i - 2 ^ (n - 1 - t)
      IN  /\ applied = 2 => psi.now = psi.init
          /\ applied = 1 =>
               \A i \in D :
                 psi.now[i] = IF cbit(i) = 1 THEN psi.init[partner(i)]
                              ELSE psi.init[i]
          /\ applied = 0 => psi.now = psi.init

\* A vector that one controlled flip changes has been restored by the
\* second one.
C16_Witness ==
    /\ psi # None
    /\ applied = 2
    /\ n_qubits = 2
    /\ cnot = <<1, 0>>
    /\ psi.init = (0 :> 0 @@ 1 :> 1 @@ 2 :> 2 @@ 3 :> 0)
    /\ psi.now = psi.init

====
